---- MODULE Spec2Model ----
(***************************************************************************)
(* Model of the simple-logger header: the Config class with its lazily     *)
(* opened log file, and the Log<Level> emitter (constructor, operator<<,   *)
(* getStream, destructor) writing into std::ostream sinks.  Streams are     *)
(* modelled with their contents as sequences of characters together with   *)
(* the formatting state (fill, width) that printTime manipulates.           *)
(***************************************************************************)
EXTENDS Integers, Sequences, FiniteSets, TLC

(* ---------------------------------------------------------------------- *)
(* Bounds of the model                                                      *)
(* ---------------------------------------------------------------------- *)
MaxLogs == 2
MaxWrites == 3
MaxPathLen == 3

(* ---------------------------------------------------------------------- *)
(* enum class LogLevel                                                      *)
(* ---------------------------------------------------------------------- *)
Debug == 0
Info == 1
Warning == 2
Error == 3
LogLevel == {Debug, Info, Warning, Error}

(* Characters are one-character strings, text is a sequence of them. *)
S_Debug == <<"D","e","b","u","g">>
S_Info == <<"I","n","f","o">>
S_Warning == <<"W","a","r","n","i","n","g">>
S_Error == <<"E","r","r","o","r">>
S_Unknown == <<"U","n","k","n","o","w","n">>
S_DotLog == <<".","l","o","g">>

logLevelToString(level) ==
    CASE level = Debug -> S_Debug
      [] level = Info -> S_Info
      [] level = Warning -> S_Warning
      [] level = Error -> S_Error
      [] OTHER -> S_Unknown

(* ---------------------------------------------------------------------- *)
(* Inputs                                                                   *)
(* ---------------------------------------------------------------------- *)
S_example == <<"e","x","a","m","p","l","e",".","c","p","p">>
S_srcExample == <<"s","r","c","/","a","p","p","/","m","a","i","n",".","c","p","p">>
S_foo == <<"v","o","i","d"," ","f","o","o","(",")">>
S_msg == <<"M","y"," ","i","n","f","o"," ","m","e","s","s","a","g","e">>
S_fancy == <<"F","a","n","c","y">>
S_testLog == <<"t","e","s","t",".","l","o","g">>

(* std::source_location values of the call sites *)
Locations == { [file |-> S_example, line |-> 6, func |-> S_foo] }

(* file paths of call sites: the two above and every short path over a     *)
(* letter and the separator                                                 *)
Paths ==
    {S_example, S_srcExample}
    \cup UNION { [1..n -> {"a", "/"}] : n \in 1..MaxPathLen }

WideLocations == { [file |-> p, line |-> 6, func |-> S_foo] : p \in Paths }

Str(s) == [k |-> "s", v |-> s]
Num(n) == [k |-> "n", v |-> n]
SetFill(c) == [k |-> "fill", v |-> c]
SetW(n) == [k |-> "w", v |-> n]

(* the values a statement appends with operator<<, in this order, over again *)
AppendedValues == << Str(<<"A">>), Num(1), Str(<<"B">>) >>
Appended == { AppendedValues[k] : k \in 1..Len(AppendedValues) }
(* content the caller writes directly to the reference from getStream() *)
Direct == { Str(S_fancy) }

(* clock readings, milliseconds since the epoch: 16:58:22.405 *)
ClockValues == {61102405}

(* 00:00:00.000, 16:44:24.078, 16:58:22.405, 16:58:22.505, 23:59:59.999,   *)
(* and 00:30:00.100 of the next day                                         *)
WideClock == {0, 60264078, 61102405, 61102505, 86399999, 88200100}

(* values of Config::timezoneAdjustment, in hours *)
TzValues == {0 - 1, 0, 1}

(* thresholds of the two builds, and the levels of the statements of a run *)
BuildLevels == {Debug, Info}

FileNames == {logLevelToString(l) \o S_DotLog : l \in LogLevel} \cup {S_testLog}
(* names the program assigns to Config::logFileName *)
AssignedNames == {S_testLog}
OldContents == <<"o","l","d">>

Streams == {"os", "logFile", "nullStream"}

VARIABLES
    logLevel,                   \* Config::logLevel
    includeFunctionSignature,   \* Config::includeFunctionSignature
    timezoneAdjustment,         \* Config::timezoneAdjustment
    logFileName,                \* Config::logFileName
    streams,                    \* the caller's ostream, Config::logFile, Log::nullStream
    disk,                       \* contents of the files, by name
    logs,                       \* the Log objects
    now,                        \* high_resolution_clock::now()
    hist                        \* observation record: what the operations were called with

vars == <<logLevel, includeFunctionSignature, timezoneAdjustment, logFileName,
          streams, disk, logs, now, hist>>

(* ---------------------------------------------------------------------- *)
(* std::ostream: contents, formatting state, error state                    *)
(* ---------------------------------------------------------------------- *)
DigitChars == <<"0","1","2","3","4","5","6","7","8","9">>

RECURSIVE Digits(_)
Digits(n) == IF n < 10 THEN <<DigitChars[n + 1]>>
             ELSE Digits(n \div 10) \o <<DigitChars[(n % 10) + 1]>>

(* num_put for an integer, decimal, no showpos *)
Dec(n) == IF n < 0 THEN <<"-">> \o Digits(0 - n) ELSE Digits(n)

(* padding to the field width, adjustfield at its default (right) *)
Pad(fill, width, s) ==
    IF Len(s) >= width THEN s
    ELSE [i \in 1..(width - Len(s)) |-> fill] \o s

(* a freshly constructed stream; good is whether it has a buffer that      *)
(* takes output: a stream on no buffer or on a file that is not open       *)
(* drops what is inserted                                                   *)
NewStream(good) ==
    [buf |-> <<>>, fill |-> " ", width |-> 0, good |-> good,
     isOpen |-> FALSE, name |-> <<>>, flushes |-> 0]

InsertChars_atFront(st, s) ==
    IF st.good
    THEN [st EXCEPT !.buf = Pad(st.fill, st.width, s) \o @, !.width = 0]
    ELSE st

(* formatted insertion of text: a failed stream takes nothing *)
InsertChars(st, s) ==
    IF st.good
    THEN [st EXCEPT !.buf = @ \o Pad(st.fill, st.width, s), !.width = 0]
    ELSE st

(* stream << token, for the kinds of token the program inserts *)
Insert(st, tok) ==
    CASE tok.k = "s" -> InsertChars(st, tok.v)
      [] tok.k = "n" -> InsertChars(st, Dec(tok.v))
      [] tok.k = "fill" -> [st EXCEPT !.fill = tok.v]
      [] tok.k = "w" -> [st EXCEPT !.width = tok.v]

(* stream << std::endl: put('\n') then flush() *)
Endl(st) ==
    IF st.good
    THEN [st EXCEPT !.buf = @ \o <<"\n">>, !.flushes = @ + 1]
    ELSE st

(* std::ofstream(name): truncating open, or failbit when it cannot open *)
OpenStream(name, ok) ==
    IF ok THEN [NewStream(TRUE) EXCEPT !.isOpen = TRUE, !.name = name]
    ELSE NewStream(FALSE)

(* the file on disk follows what the open ofstream holds *)
SyncDisk(dk, lf) == IF lf.isOpen THEN [dk EXCEPT ![lf.name] = lf.buf] ELSE dk

(* ---------------------------------------------------------------------- *)
(* class Config                                                             *)
(* ---------------------------------------------------------------------- *)
(* Config::getLogFile: ok is whether the operating system lets the open    *)
(* succeed, should one be attempted                                         *)
getLogFile_reopen(lf, dk, ok) ==
    [lf |-> OpenStream(logFileName, ok),
     dk |-> IF ok THEN [dk EXCEPT ![logFileName] = <<>>] ELSE dk,
     attempted |-> TRUE, succeeded |-> ok]

getLogFile_fixedName(lf, dk, ok) ==
    IF ~lf.isOpen
    THEN [lf |-> OpenStream(logLevelToString(logLevel) \o S_DotLog, ok),
          dk |-> IF ok THEN [dk EXCEPT ![logLevelToString(logLevel) \o S_DotLog] = <<>>]
                 ELSE dk,
          attempted |-> TRUE, succeeded |-> ok]
    ELSE [lf |-> lf, dk |-> dk, attempted |-> FALSE, succeeded |-> FALSE]

getLogFile(lf, dk, ok) ==
    IF ~lf.isOpen
    THEN [lf |-> OpenStream(logFileName, ok),
          dk |-> IF ok THEN [dk EXCEPT ![logFileName] = <<>>] ELSE dk,
          attempted |-> TRUE, succeeded |-> ok]
    ELSE [lf |-> lf, dk |-> dk, attempted |-> FALSE, succeeded |-> FALSE]

(* Config::getDefaultStream<Level>: every level is set to the log file *)
getDefaultStream(Level) ==
    IF Level \in LogLevel THEN "logFile" ELSE "cout"

(* the initialiser of Config::logFileName *)
DefaultFileName(level) == logLevelToString(level) \o S_DotLog

(* ---------------------------------------------------------------------- *)
(* class Log<Level>                                                         *)
(* ---------------------------------------------------------------------- *)
isActive_strict(Level) == Level > logLevel

isActive(Level) == Level >= logLevel

(* the constructor's initialiser: m_stream(isActive ? stream : nullStream) *)
BindStream_always(Level, stream) == stream

BindStream(Level, stream) == IF isActive(Level) THEN stream ELSE "nullStream"

(* Log::operator<< on the stream m_stream refers to *)
LogInsert_stringsOnly(Level, st, tok) ==
    IF isActive(Level) /\ tok.k # "n" THEN Insert(st, tok) ELSE st

LogInsert(Level, st, tok) == IF isActive(Level) THEN Insert(st, tok) ELSE st

RECURSIVE LogInsertAll(_, _, _)
LogInsertAll(Level, st, toks) ==
    IF toks = <<>> THEN st
    ELSE LogInsertAll(Level, LogInsert(Level, st, Head(toks)), Tail(toks))

(* the four numbers Log::printTime computes from the clock reading t,      *)
(* milliseconds since the epoch                                             *)
TimeParts(t) ==
    [h |-> ((t \div 3600000) % 24) + timezoneAdjustment,
     min |-> (t \div 60000) % 60,
     s |-> (t \div 1000) % 60,
     ms |-> t % 100]

(* Log::printTime, as the tokens it inserts for the clock reading t *)
printTime(t) ==
    LET p == TimeParts(t)
    IN << SetFill("0"), SetW(2), Num(p.h), Str(<<":">>),
          SetFill("0"), SetW(2), Num(p.min), Str(<<":">>),
          SetFill("0"), SetW(2), Num(p.s), Str(<<".">>),
          SetFill("0"), SetW(3), Num(p.ms) >>

(* std::strrchr(filePath, '/'): index of the last '/', 0 when there is none *)
strrchr(filePath) ==
    LET at == {i \in 1..Len(filePath) : filePath[i] = "/"}
    IN IF at = {} THEN 0 ELSE CHOOSE i \in at : \A j \in at : j <= i

(* Log::printFileName *)
printFileName(filePath) ==
    LET slashPosition == strrchr(filePath)
    IN IF slashPosition # 0
       THEN << Str(SubSeq(filePath, slashPosition + 1, Len(filePath))) >>
       ELSE << Str(filePath) >>

LogPrefix_alwaysSignature(Level, t, loc) ==
    << Str(<<"[">>) >> \o printTime(t)
    \o << Str(<<"]","[">>), Str(logLevelToString(Level)), Str(<<"]","[">>) >>
    \o printFileName(loc.file)
    \o << Str(<<":">>), Num(loc.line), Str(<<"]">>),
          Str(<<"[">>), Str(loc.func), Str(<<"]">>), Str(<<" ">>) >>

(* the body of Log::Log, as the tokens it inserts *)
LogPrefix(Level, t, loc) ==
    << Str(<<"[">>) >> \o printTime(t)
    \o << Str(<<"]","[">>), Str(logLevelToString(Level)), Str(<<"]","[">>) >>
    \o printFileName(loc.file)
    \o << Str(<<":">>), Num(loc.line), Str(<<"]">>) >>
    \o (IF includeFunctionSignature
        THEN << Str(<<"[">>), Str(loc.func), Str(<<"]">>) >>
        ELSE << >>)
    \o << Str(<<" ">>) >>

LogDtor_noFlush(Level, st) ==
    IF isActive(Level) THEN InsertChars(st, <<"\n">>) ELSE st

(* Log::~Log on the stream m_stream refers to *)
LogDtor(Level, st) == IF isActive(Level) THEN Endl(st) ELSE st

getStream_sink(l) == l.sink

(* Log::getStream *)
getStream(l) == l.m_stream

LogCtor_restart(Level, st, t, loc) ==
    IF isActive(Level)
    THEN LogInsertAll(Level, [st EXCEPT !.buf = <<>>], LogPrefix(Level, t, loc))
    ELSE st

(* the constructor of Log: binds m_stream and, if active, prints the prefix *)
LogCtor(Level, st, t, loc) ==
    IF isActive(Level) THEN LogInsertAll(Level, st, LogPrefix(Level, t, loc)) ELSE st

(* ---------------------------------------------------------------------- *)
(* The other emitter classes of the repository                              *)
(* ---------------------------------------------------------------------- *)
Variants == {"Log", "Logger", "SimpleLogger", "TinyLogger"}

Logger_is_active(Level) == Level >= logLevel

SimpleLogger_is_active(Level) == Level <= logLevel

(* the guard inside TinyLogger::operator<< *)
TinyLogger_writes(Level) == Level <= logLevel

(* Logger::Logger: the function signature is always printed *)
LoggerPrefix(Level, t, loc) ==
    << Str(<<"[">>) >> \o printTime(t)
    \o << Str(<<"]","[">>), Str(logLevelToString(Level)), Str(<<"]","[">>) >>
    \o printFileName(loc.file)
    \o << Str(<<":">>), Num(loc.line), Str(<<"]">>),
          Str(<<"[">>), Str(loc.func), Str(<<"]"," ">>) >>

(* SimpleLogger::SimpleLogger *)
SimpleLoggerPrefix(Level, t, loc) ==
    << Str(<<"[">>) >> \o printTime(t)
    \o << Str(<<"]","[">>), Str(logLevelToString(Level)), Str(<<"]","[">>) >>
    \o printFileName(loc.file)
    \o << Str(<<":">>), Num(loc.line), Str(<<"]">>),
          Str(<<"[">>), Str(loc.func), Str(<<"]"," ">>) >>

(* TinyLogger::TinyLogger: location.file_name() is printed as it is *)
TinyLoggerPrefix(Level, t, loc) ==
    << Str(<<"[">>) >> \o printTime(t)
    \o << Str(<<"]","[">>), Str(logLevelToString(Level)),
          Str(<<"]","[">>), Str(loc.file), Str(<<":">>), Num(loc.line), Str(<<"]">>),
          Str(<<"[">>), Str(loc.func), Str(<<"]"," ">>) >>

(* does an emitter of class v and level Level write at all *)
Active(v, Level) ==
    CASE v = "Log" -> isActive(Level)
      [] v = "Logger" -> Logger_is_active(Level)
      [] v = "SimpleLogger" -> SimpleLogger_is_active(Level)
      [] v = "TinyLogger" -> TinyLogger_writes(Level)

(* the stream the member m_stream is bound to *)
Bind(v, Level, stream) ==
    CASE v = "Log" -> BindStream(Level, stream)
      [] v = "TinyLogger" -> stream
      [] OTHER -> IF Active(v, Level) THEN stream ELSE "nullStream"

(* operator<< of class v *)
EmitterInsert(v, Level, st, tok) ==
    IF v = "Log" THEN LogInsert(Level, st, tok)
    ELSE IF Active(v, Level) THEN Insert(st, tok) ELSE st

RECURSIVE EmitterInsertAll(_, _, _, _)
EmitterInsertAll(v, Level, st, toks) ==
    IF toks = <<>> THEN st
    ELSE EmitterInsertAll(v, Level, EmitterInsert(v, Level, st, Head(toks)), Tail(toks))

(* the constructor body of class v *)
EmitterCtor(v, Level, st, t, loc) ==
    CASE v = "Log" -> LogCtor(Level, st, t, loc)
      [] v = "Logger" -> EmitterInsertAll(v, Level, st, LoggerPrefix(Level, t, loc))
      [] v = "SimpleLogger" -> EmitterInsertAll(v, Level, st, SimpleLoggerPrefix(Level, t, loc))
      [] v = "TinyLogger" -> EmitterInsertAll(v, Level, st, TinyLoggerPrefix(Level, t, loc))

(* the destructor of class v *)
EmitterDtor(v, Level, st) ==
    IF v = "Log" THEN LogDtor(Level, st)
    ELSE IF Active(v, Level) THEN Endl(st) ELSE st

(* ---------------------------------------------------------------------- *)
(* State                                                                    *)
(* ---------------------------------------------------------------------- *)
LogIds == 1..MaxLogs

NoLog ==
    [state |-> "none", variant |-> "Log", Level |-> Debug, m_stream |-> "nullStream",
     sink |-> "nullStream", start |-> 0, stop |-> 0, good0 |-> FALSE, excl |-> FALSE,
     parent |-> 0, outerLen |-> 0, quiet |-> TRUE, fill0 |-> " ", width0 |-> 0,
     t |-> 0, loc |-> [file |-> <<>>, line |-> 0, func |-> <<>>], content |-> <<>>]

InitCommon ==
    /\ logFileName = DefaultFileName(logLevel)
    /\ streams = [s \in Streams |-> NewStream(s = "os")]
    /\ disk = [n \in FileNames |-> OldContents]
    /\ logs = [i \in LogIds |-> NoLog]
    /\ now = 0
    /\ hist = [attempts |-> 0, successes |-> 0, openedAs |-> <<>>, assigned |-> FALSE,
               assignedLive |-> FALSE, nwrites |-> 0]

(* the configuration as the header sets it: the threshold of a debug or of  *)
(* a release build, no function signature, no timezone adjustment            *)
Init ==
    /\ logLevel \in BuildLevels
    /\ includeFunctionSignature = FALSE
    /\ timezoneAdjustment = 0
    /\ InitCommon

Alive(i) == logs[i].state = "alive"

(* the innermost emitter still in scope, 0 when there is none *)
Innermost ==
    IF \E j \in LogIds : Alive(j)
    THEN CHOOSE j \in LogIds : Alive(j) /\ \A k \in LogIds : Alive(k) => k <= j
    ELSE 0

(* ---------------------------------------------------------------------- *)
(* Operations                                                               *)
(* ---------------------------------------------------------------------- *)
(* A Log (or other emitter) is constructed at clock reading t: byDefault   *)
(* says the stream argument is left to its default,                         *)
(* Config::getDefaultStream<Level>()                                        *)
Construct(id, v, Level, byDefault, ok, loc, t) ==
    /\ logs[id].state = "none"
    /\ \A j \in LogIds : j < id => logs[j].state # "none"
    /\ t >= now
    /\ now' = t
    /\ LET r == IF byDefault
                THEN getLogFile(streams["logFile"], disk, ok)
                ELSE [lf |-> streams["logFile"], dk |-> disk,
                      attempted |-> FALSE, succeeded |-> FALSE]
           stream == IF byDefault THEN getDefaultStream(Level) ELSE "os"
           s1 == [streams EXCEPT !["logFile"] = r.lf]
           m == Bind(v, Level, stream)
           s2 == [s1 EXCEPT ![m] = EmitterCtor(v, Level, @, t, loc)]
           shared == {j \in LogIds : Alive(j) /\ logs[j].m_stream = m}
       IN /\ streams' = s2
          /\ disk' = SyncDisk(r.dk, s2["logFile"])
          /\ logs' = [j \in LogIds |->
                IF j = id
                THEN [state |-> "alive", variant |-> v, Level |-> Level, m_stream |-> m,
                      sink |-> stream, start |-> Len(s1[stream].buf), stop |-> 0,
                      good0 |-> s1[stream].good, excl |-> (shared = {}),
                      parent |-> Innermost, quiet |-> TRUE,
                      outerLen |-> IF Innermost # 0 /\ m # "nullStream"
                                      /\ logs[Innermost].m_stream = m
                                   THEN Len(logs[Innermost].content) ELSE 0,
                      fill0 |-> s1[stream].fill, width0 |-> s1[stream].width,
                      t |-> t, loc |-> loc, content |-> <<>>]
                ELSE IF j \in shared THEN [logs[j] EXCEPT !.excl = FALSE]
                ELSE logs[j]]
          /\ hist' = [hist EXCEPT
                !.attempts = IF r.attempted THEN @ + 1 ELSE @,
                !.successes = IF r.succeeded THEN @ + 1 ELSE @,
                !.openedAs = IF r.succeeded THEN logFileName ELSE @]
    /\ UNCHANGED <<logLevel, includeFunctionSignature, timezoneAdjustment, logFileName>>

(* the record of the values given to emitter id, and of the emitters in    *)
(* scope that were constructed after it on the same stream and get its     *)
(* bytes in the middle of their line                                        *)
Wrote(id, tok) ==
    [j \in LogIds |->
        IF j = id THEN [logs[j] EXCEPT !.content = Append(@, tok)]
        ELSE IF /\ j > id /\ Alive(j) /\ logs[id].m_stream # "nullStream"
                /\ logs[j].m_stream = logs[id].m_stream
             THEN [logs[j] EXCEPT !.quiet = FALSE]
        ELSE logs[j]]

(* log << tok *)
OperatorShl(id, tok) ==
    /\ Alive(id)
    /\ hist.nwrites < MaxWrites
    /\ LET l == logs[id]
       IN /\ streams' = [streams EXCEPT
                ![l.m_stream] = EmitterInsert(l.variant, l.Level, @, tok)]
          /\ disk' = SyncDisk(disk, streams'["logFile"])
          /\ logs' = Wrote(id, tok)
    /\ hist' = [hist EXCEPT !.nwrites = @ + 1]
    /\ UNCHANGED <<logLevel, includeFunctionSignature, timezoneAdjustment, logFileName, now>>

(* log.getStream() << tok *)
DirectWrite(id, tok) ==
    /\ Alive(id)
    /\ logs[id].variant # "TinyLogger"
    /\ hist.nwrites < MaxWrites
    /\ streams' = [streams EXCEPT ![getStream(logs[id])] = Insert(@, tok)]
    /\ disk' = SyncDisk(disk, streams'["logFile"])
    /\ logs' = Wrote(id, tok)
    /\ hist' = [hist EXCEPT !.nwrites = @ + 1]
    /\ UNCHANGED <<logLevel, includeFunctionSignature, timezoneAdjustment, logFileName, now>>

(* the emitter goes out of scope: emitters are temporaries or block-scoped  *)
(* objects, destroyed in the reverse order of their construction            *)
Destroy(id) ==
    /\ Alive(id)
    /\ \A j \in LogIds : j > id => ~Alive(j)
    /\ LET l == logs[id]
       IN /\ streams' = [streams EXCEPT ![l.m_stream] = EmitterDtor(l.variant, l.Level, @)]
          /\ disk' = SyncDisk(disk, streams'["logFile"])
          /\ logs' = [logs EXCEPT ![id].state = "dead",
                                  ![id].stop = Len(streams'[l.sink].buf)]
    /\ UNCHANGED <<logLevel, includeFunctionSignature, timezoneAdjustment, logFileName,
                   now, hist>>

(* Config::logFileName = name *)
SetLogFileName(name) ==
    /\ logFileName # name
    /\ logFileName' = name
    /\ hist' = [hist EXCEPT !.assigned = TRUE,
                             !.assignedLive = @ \/ \E i \in LogIds : Alive(i)]
    /\ UNCHANGED <<logLevel, includeFunctionSignature, timezoneAdjustment,
                   streams, disk, logs, now>>

(* the value the statement of emitter l appends next *)
NextValue(l) ==
    LET n == Cardinality({k \in 1..Len(l.content) : l.content[k] \in Appended})
    IN AppendedValues[(n % Len(AppendedValues)) + 1]

(* whether the next open of the log file succeeds is up to the system *)
OpenOutcomes(byDefault) ==
    IF byDefault /\ ~streams["logFile"].isOpen THEN BOOLEAN ELSE {FALSE}

(* Log statements that name their stream and hand it on, through           *)
(* getStream(), at most once, and assignments to logFileName made in the   *)
(* scope of an emitter                                                      *)
Next ==
    \/ \E id \in LogIds, Level \in BuildLevels, loc \in Locations, t \in ClockValues :
          Construct(id, "Log", Level, FALSE, FALSE, loc, t)
    \/ \E id \in LogIds : OperatorShl(id, NextValue(logs[id]))
    \/ \E id \in LogIds, tok \in Direct :
          (\A k \in 1..Len(logs[id].content) : logs[id].content[k] \notin Direct)
          /\ DirectWrite(id, tok)
    \/ \E id \in LogIds : Destroy(id)
    \/ \E name \in AssignedNames :
          (\E i \in LogIds : Alive(i)) /\ SetLogFileName(name)

Spec == Init /\ [][Next]_vars

(* Log statements that name their stream, one after the other or one in    *)
(* the scope of another                                                     *)
NextNested ==
    \/ \E id \in LogIds, Level \in BuildLevels, loc \in Locations, t \in ClockValues :
          Construct(id, "Log", Level, FALSE, FALSE, loc, t)
    \/ \E id \in LogIds : OperatorShl(id, NextValue(logs[id]))
    \/ \E id \in LogIds : Destroy(id)

SpecNested == Init /\ [][NextNested]_vars

(* Log statements on the default stream, and assignments to logFileName *)
NextFile ==
    \/ \E id \in LogIds, Level \in BuildLevels, loc \in Locations, t \in ClockValues :
          \E ok \in OpenOutcomes(TRUE) :
              Construct(id, "Log", Level, TRUE, ok, loc, t)
    \/ \E id \in LogIds : OperatorShl(id, NextValue(logs[id]))
    \/ \E id \in LogIds : Destroy(id)
    \/ \E name \in AssignedNames : SetLogFileName(name)

SpecFile == Init /\ [][NextFile]_vars

(* One log statement of any of the emitter classes, under any edited       *)
(* configuration, at any call site and clock reading                        *)
InitOne ==
    /\ logLevel \in LogLevel
    /\ includeFunctionSignature \in BOOLEAN
    /\ timezoneAdjustment \in TzValues
    /\ InitCommon

NextOne ==
    \/ \E v \in Variants, Level \in LogLevel, loc \in WideLocations, t \in WideClock :
          Construct(1, v, Level, FALSE, FALSE, loc, t)
    \/ (logs[1].content = <<>> /\ OperatorShl(1, Str(S_msg)))
    \/ Destroy(1)

SpecOne == InitOne /\ [][NextOne]_vars

(* ====================================================================== *)
(* Properties                                                               *)
(* ====================================================================== *)
Constructed(i) == logs[i].state # "none"
Dead(i) == logs[i].state = "dead"
IsLog(i) == logs[i].variant = "Log"

(* what the sink given to emitter i holds beyond what it held at construction *)
Written(i) ==
    LET l == logs[i]
        buf == streams[l.sink].buf
    IN SubSeq(buf, l.start + 1, IF l.state = "dead" THEN l.stop ELSE Len(buf))

StartsWith(text, x) == Len(text) >= Len(x) /\ SubSeq(text, 1, Len(x)) = x

ZeroPad(w, s) == IF Len(s) >= w THEN s ELSE [i \in 1..(w - Len(s)) |-> "0"] \o s

(* the text of an appended value *)
Text(tok) == IF tok.k = "s" THEN tok.v ELSE Dec(tok.v)

RECURSIVE Concat(_)
Concat(toks) == IF toks = <<>> THEN <<>> ELSE Text(Head(toks)) \o Concat(Tail(toks))

RECURSIVE AfterLastSeparator(_)
AfterLastSeparator(path) ==
    IF \E i \in 1..Len(path) : path[i] = "/"
    THEN LET first == CHOOSE i \in 1..Len(path) :
                          path[i] = "/" /\ \A j \in 1..(i - 1) : path[j] # "/"
         IN AfterLastSeparator(SubSeq(path, first + 1, Len(path)))
    ELSE path

(* the time field, from the four numbers printTime computes *)
TimeField(t) ==
    LET p == TimeParts(t)
    IN ZeroPad(2, Dec(p.h)) \o <<":">> \o ZeroPad(2, Dec(p.min)) \o <<":">>
       \o ZeroPad(2, Dec(p.s)) \o <<".">> \o ZeroPad(3, Dec(p.ms))

(* the time of day at clock reading t, moved by the timezone adjustment *)
TimeOfDay(t) ==
    ZeroPad(2, Dec(((t \div 3600000) + timezoneAdjustment + 24) % 24)) \o <<":">>
    \o ZeroPad(2, Dec((t \div 60000) % 60)) \o <<":">>
    \o ZeroPad(2, Dec((t \div 1000) % 60)) \o <<".">>
    \o ZeroPad(3, Dec(t % 1000))

(* the prefix up to and including the file field and its colon *)
PrefixToFile(l) ==
    <<"[">> \o TimeField(l.t) \o <<"]","[">> \o logLevelToString(l.Level) \o <<"]","[">>
    \o AfterLastSeparator(l.loc.file) \o <<":">>

(* the prefix of the line format *)
PrefixText(l) ==
    PrefixToFile(l) \o Dec(l.loc.line) \o <<"]">>
    \o (IF includeFunctionSignature THEN <<"[">> \o l.loc.func \o <<"]">> ELSE <<>>)
    \o <<" ">>

LineText(l) == PrefixText(l) \o Concat(l.content) \o <<"\n">>

ExampleLine ==
    <<"[","1","6",":","4","4",":","2","4",".","0","7","8","]",
      "[","I","n","f","o","]",
      "[","e","x","a","m","p","l","e",".","c","p","p",":","6","]"," ",
      "M","y"," ","i","n","f","o"," ","m","e","s","s","a","g","e","\n">>

IsExample(l) ==
    /\ l.Level = Info /\ l.loc.file = S_example /\ l.loc.line = 6
    /\ l.t = 60264078 /\ timezoneAdjustment = 0 /\ ~includeFunctionSignature
    /\ l.content = << Str(S_msg) >>

(* C1: a Log<S> emitter writes to the sink it was given iff S >= T, the    *)
(* configured threshold; below the threshold, construction, appends and    *)
(* destruction leave zero bytes on that sink.                               *)
C1_EmitsIffAtOrAboveThreshold ==
    \A i \in LogIds : Constructed(i) /\ IsLog(i) =>
        /\ (Written(i) # <<>>) <=> (logs[i].Level >= logLevel)
        /\ logs[i].Level < logLevel => streams[logs[i].sink].flushes = 0

C1_Witness ==
    \E i \in LogIds :
        /\ Dead(i) /\ IsLog(i) /\ logs[i].Level < logLevel
        /\ logs[i].content # <<>>

(* C3: the complete output of one active Log emitter is the prefix         *)
(* [HH:MM:SS.mmm][Level][basename:line], then [function-signature] iff     *)
(* includeFunctionSignature, then one space, the appended content and one  *)
(* line terminator; the example of the specification gives ExampleLine.     *)
C3_LineFormat ==
    \A i \in LogIds : Dead(i) /\ IsLog(i) /\ logs[i].Level >= logLevel =>
        /\ streams[logs[i].sink].buf = LineText(logs[i])
        /\ IsExample(logs[i]) => streams[logs[i].sink].buf = ExampleLine

C3_Witness ==
    \E i \in LogIds : Dead(i) /\ IsLog(i) /\ IsExample(logs[i])
                      /\ logs[i].Level >= logLevel

(* C6: for every source file path, the file field of the prefix is the     *)
(* part of the path after its last directory separator, the whole path     *)
(* when it has none; no directory component appears in the output.          *)
C6_FileFieldIsBasename ==
    \A i \in LogIds : Constructed(i) /\ Written(i) # <<>> =>
        StartsWith(Written(i), PrefixToFile(logs[i]))

(* the same, of the classes that call print_file_name *)
C6_FileFieldOfLog ==
    \A i \in LogIds : Constructed(i) /\ Written(i) # <<>>
                      /\ logs[i].variant # "TinyLogger" =>
        StartsWith(Written(i), PrefixToFile(logs[i]))

(* C10: the time field is the time of day at the clock reading, moved by   *)
(* the timezone adjustment: HH in 00..23, MM and SS in 00..59, mmm the     *)
(* milliseconds within the second; so readings 100 ms apart give            *)
(* different time fields.                                                   *)
StampAt(t) == LogInsertAll(Error, NewStream(TRUE), printTime(t)).buf

C10_TimeOfDay ==
    \A i \in LogIds : Constructed(i) /\ IsLog(i) /\ Written(i) # <<>> =>
        /\ StartsWith(Written(i), <<"[">> \o TimeOfDay(logs[i].t) \o <<"]">>)
        /\ StampAt(logs[i].t) # StampAt(logs[i].t + 100)

(* the emitter whose operation a step is: its record changes in state or   *)
(* in the values it was given                                               *)
Acted(i) ==
    \/ logs'[i].state # logs[i].state
    \/ logs'[i].content # logs[i].content

(* C2: for an inactive Log emitter every operation is a no-op on the sink  *)
(* passed to the constructor: construction, appends, writes to the         *)
(* reference getStream() returns and destruction leave that sink's         *)
(* contents unchanged and unflushed; getStream() is the discard stream.     *)
C2_InactiveIsNoOp ==
    [][\A i \in LogIds :
          Acted(i) /\ logs'[i].variant = "Log" /\ logs'[i].Level < logLevel =>
              /\ streams'[logs'[i].sink] = streams[logs'[i].sink]
              /\ getStream(logs'[i]) = "nullStream"
              /\ streams'["nullStream"].buf = <<>>]_vars

C2_Witness ==
    \E i \in LogIds :
        /\ Dead(i) /\ IsLog(i) /\ logs[i].Level < logLevel /\ logs[i].sink = "os"
        /\ \E a \in 1..Len(logs[i].content) : logs[i].content[a] \in Direct
        /\ \E a \in 1..Len(logs[i].content) : logs[i].content[a] \in Appended

RECURSIVE Count(_, _)
Count(text, c) ==
    IF text = <<>> THEN 0
    ELSE (IF Head(text) = c THEN 1 ELSE 0) + Count(Tail(text), c)

DestroyedActive(sink) ==
    {i \in LogIds : Dead(i) /\ logs[i].sink = sink /\ logs[i].Level >= logLevel}

(* C4: finalisation runs exactly once per emitter: the line terminators    *)
(* on a sink, and its flushes, are as many as the active emitters that     *)
(* were constructed on it and have been destroyed; none is written before  *)
(* the destruction and none by an inactive emitter.                         *)
C4_OneTerminatorPerActiveEmitter ==
    /\ Count(streams["os"].buf, "\n") = Cardinality(DestroyedActive("os"))
    /\ streams["os"].flushes = Cardinality(DestroyedActive("os"))

C4_Witness ==
    /\ \E i \in LogIds : Dead(i) /\ logs[i].Level >= logLevel /\ logs[i].content # <<>>
    /\ \E i \in LogIds : Dead(i) /\ logs[i].Level < logLevel /\ logs[i].content # <<>>

(* C5: for an active Log emitter the bytes between the end of the prefix   *)
(* and the line terminator are the appended values and the directly        *)
(* written content, each once, in program order, nothing in between.        *)
C5_ContentInOrder ==
    \A i \in LogIds :
        Constructed(i) /\ IsLog(i) /\ logs[i].Level >= logLevel /\ logs[i].excl =>
            Written(i) = PrefixText(logs[i]) \o Concat(logs[i].content)
                         \o (IF Dead(i) THEN <<"\n">> ELSE <<>>)

C5_Witness ==
    \E i \in LogIds :
        /\ Dead(i) /\ IsLog(i) /\ logs[i].Level >= logLevel /\ logs[i].excl
        /\ Len(logs[i].content) = 3
        /\ logs[i].content[1] \in Appended
        /\ logs[i].content[2] \in Direct
        /\ logs[i].content[3] \in Appended

(* the chained appends "A", 1, "B" *)
C5_WitnessChained ==
    \E i \in LogIds :
        /\ Dead(i) /\ IsLog(i) /\ logs[i].Level >= logLevel /\ logs[i].excl
        /\ logs[i].content = << Str(<<"A">>), Num(1), Str(<<"B">>) >>
        /\ Written(i) = PrefixText(logs[i]) \o <<"A","1","B","\n">>

(* C7: an emitter is Active or Inactive as decided at construction: the    *)
(* stream it writes to is its sink or the discard stream according to      *)
(* Level >= logLevel, and no append, direct write or assignment to the     *)
(* configuration changes it while the emitter exists.                       *)
C7_StateFixedAtConstruction ==
    [][\A i \in LogIds : logs'[i].state # "none" /\ logs'[i].variant = "Log" =>
          /\ logs'[i].m_stream =
                 IF logs'[i].Level >= logLevel' THEN logs'[i].sink ELSE "nullStream"
          /\ logs[i].state # "none" =>
                 /\ logs'[i].m_stream = logs[i].m_stream
                 /\ logs'[i].Level = logs[i].Level
                 /\ logLevel' = logLevel]_vars

C7_Witness ==
    /\ hist.assignedLive
    /\ \E i \in LogIds :
          /\ Dead(i) /\ IsLog(i) /\ logs[i].Level < logLevel
          /\ \E a \in 1..Len(logs[i].content) : logs[i].content[a] \in Direct
    /\ \E i \in LogIds :
          /\ Dead(i) /\ IsLog(i) /\ logs[i].Level >= logLevel
          /\ \E a \in 1..Len(logs[i].content) : logs[i].content[a] \in Appended

(* the emitters constructed on the default stream so far *)
DefaultUses == {i \in LogIds : Constructed(i) /\ logs[i].sink = "logFile"}

(* C8 as stated: the log file is opened at most once, on first use, and a  *)
(* failed open is not retried.                                              *)
C8_OpenedAtMostOnce == hist.attempts <= 1

(* C8, amended: the log file is opened successfully at most once and stays *)
(* open; while it is not open every use of the default sink attempts the   *)
(* open again, and what is written through the default sink meanwhile      *)
(* reaches no file.                                                         *)
C8_OpenedOnceRetriedUntilOpen ==
    /\ [](/\ hist.successes <= 1
          /\ streams["logFile"].isOpen <=> hist.successes = 1
          /\ ~streams["logFile"].isOpen =>
                /\ hist.attempts = Cardinality(DefaultUses)
                /\ disk = [n \in FileNames |-> OldContents]
                /\ streams["logFile"].buf = <<>>
          /\ streams["logFile"].isOpen => hist.attempts <= Cardinality(DefaultUses))
    /\ [][streams["logFile"].isOpen => streams'["logFile"].isOpen]_vars

C8_Witness ==
    /\ hist.attempts >= 2 /\ streams["logFile"].isOpen
    /\ \E i \in LogIds : Dead(i) /\ logs[i].Level >= logLevel /\ ~logs[i].good0
                         /\ logs[i].content # <<>>

C11_InactiveNeverOpensFile ==
    (\A i \in LogIds : Constructed(i) =>
          logs[i].sink = "logFile" /\ IsLog(i) /\ logs[i].Level < logLevel)
    => /\ hist.attempts = 0
       /\ ~streams["logFile"].isOpen
       /\ disk = [n \in FileNames |-> OldContents]

(* C12: every emitter class (Log, Logger, SimpleLogger, TinyLogger) makes  *)
(* the same emission decision: an emitter writes to its sink iff its       *)
(* level is at or above the threshold, so with the threshold Info the      *)
(* Warning and Error messages are written and the Debug ones are not.      *)
C12_SameDecisionInEveryVariant ==
    \A i \in LogIds : Constructed(i) =>
        ((Written(i) # <<>>) <=> (logs[i].Level >= logLevel))

(* the line of emitter i as far as it has got: nothing when inactive, no   *)
(* terminator while the emitter is alive                                    *)
LineSoFar(i) ==
    IF Constructed(i) /\ logs[i].Level >= logLevel
    THEN PrefixText(logs[i]) \o Concat(logs[i].content)
         \o (IF Dead(i) THEN <<"\n">> ELSE <<>>)
    ELSE <<>>

RECURSIVE LinesFrom(_)
LinesFrom(i) == IF i \in LogIds THEN LineSoFar(i) \o LinesFrom(i + 1) ELSE <<>>

(* no emitter was constructed while another one was alive *)
NeverOverlapped == \A i \in LogIds : Constructed(i) => logs[i].parent = 0

(* C13: if the lifetimes of the emitters on a sink never overlap, the      *)
(* bytes on the sink are the concatenation, in construction order, of one  *)
(* complete line per active emitter (prefix, content, one terminator),     *)
(* with no byte of one emitter inside the line of another.                  *)
C13_SequentialLinesConcatenate ==
    NeverOverlapped => streams["os"].buf = LinesFrom(1)

C13_Witness ==
    /\ NeverOverlapped
    /\ \E i, j \in LogIds :
          /\ i < j /\ Dead(i) /\ Dead(j)
          /\ logs[i].Level >= logLevel /\ logs[j].Level >= logLevel
          /\ logs[i].content # <<>> /\ logs[j].content # <<>>

(* where the bytes of emitter k on its sink end *)
End(k) == IF Dead(k) THEN logs[k].stop ELSE Len(streams[logs[k].sink].buf)

(* position p of the sink of emitter i lies in what a later emitter, bound *)
(* to that sink, wrote                                                      *)
Covered(i, p) ==
    \E k \in LogIds :
        /\ k > i /\ Constructed(k) /\ logs[k].m_stream = logs[i].sink
        /\ logs[k].start < p /\ p <= End(k)

(* the bytes at positions lo..hi of the sink of emitter i that no emitter  *)
(* constructed after i wrote                                                *)
RECURSIVE Own(_, _, _)
Own(i, lo, hi) ==
    IF lo > hi THEN <<>>
    ELSE (IF Covered(i, lo) THEN <<>> ELSE << streams[logs[i].sink].buf[lo] >>)
         \o Own(i, lo + 1, hi)

(* emitter j was constructed and destroyed while emitter i was alive, both  *)
(* active and on the same sink                                              *)
Nested(i, j) ==
    /\ Constructed(j) /\ logs[j].parent = i /\ Dead(j)
    /\ IsLog(i) /\ IsLog(j) /\ logs[i].sink = logs[j].sink
    /\ logs[i].Level >= logLevel /\ logs[j].Level >= logLevel

(* the complete line of j stands after what i had written when j was       *)
(* constructed and before the rest of the content of i                      *)
SplitsOuter(i, j) ==
    LET buf == streams[logs[i].sink].buf
        before == SubSeq(logs[i].content, 1, logs[j].outerLen)
        after == SubSeq(logs[i].content, logs[j].outerLen + 1, Len(logs[i].content))
    IN /\ Own(j, logs[j].start + 1, logs[j].stop) = LineText(logs[j])
       /\ (\A k \in LogIds : logs[k].parent # j) =>
             SubSeq(buf, logs[j].start + 1, logs[j].stop) = LineText(logs[j])
       /\ Own(i, logs[i].start + 1, logs[j].start)
             = PrefixText(logs[i]) \o Concat(before)
       /\ Own(i, logs[j].stop + 1, End(i))
             = Concat(after) \o (IF Dead(i) THEN <<"\n">> ELSE <<>>)
       /\ logs[i].start < logs[j].start /\ logs[j].stop <= End(i)
       /\ buf[logs[j].stop] = "\n"

(* the bytes the operation of a step puts on the sink *)
StepBytes(i) ==
    IF logs[i].state = "none" THEN PrefixText(logs'[i])
    ELSE IF logs'[i].state = "dead" THEN <<"\n">>
    ELSE Text(logs'[i].content[Len(logs'[i].content)])

(* C14 as stated: whenever an active emitter j is constructed and          *)
(* destroyed on the same sink while an active emitter i is alive, the      *)
(* complete line of j (prefix, content, terminator) stands after what i    *)
(* had written by then and before the rest of the content of i.             *)
C14_NestedLineSplitsOuter ==
    \A i, j \in LogIds : Nested(i, j) => SplitsOuter(i, j)

(* C14, amended: the same, provided no emitter is written to while an      *)
(* emitter constructed after it is alive; and in every case each operation *)
(* of an active emitter puts its bytes at the end of the sink, so no byte  *)
(* of an emitter is lost or reordered relative to its own writes.           *)
C14_NestedLineSplitsQuietOuter ==
    /\ [](\A i, j \in LogIds :
            Nested(i, j) /\ (\A k \in LogIds : k >= i => logs[k].quiet)
            => SplitsOuter(i, j))
    /\ [][\A i \in LogIds :
            Acted(i) /\ logs'[i].variant = "Log" /\ logs'[i].Level >= logLevel
            => streams'[logs'[i].sink].buf
                   = streams[logs'[i].sink].buf \o StepBytes(i)]_vars

C14_Witness ==
    \E i, j \in LogIds :
        /\ logs[j].parent = i /\ Dead(j) /\ Dead(i) /\ IsLog(i) /\ IsLog(j)
        /\ logs[i].sink = "os" /\ logs[j].sink = "os"
        /\ logs[i].Level >= logLevel /\ logs[j].Level >= logLevel
        /\ logs[j].outerLen >= 1 /\ Len(logs[i].content) > logs[j].outerLen
        /\ logs[j].content # <<>> /\ logs[j].quiet

(* the number 42 as the caller would see it written in a field of width 5  *)
(* with fill character fill                                                 *)
CallerField(fill) == Pad(fill, 5, Dec(42))

(* C15: an emitter leaves the formatting state of the sink as it found it: *)
(* when an emitter, active or inactive, is destroyed, the fill character   *)
(* and the pending field width of its sink are those of the moment of its  *)
(* construction, so a value the caller writes afterwards is rendered as    *)
(* it would have been without the log line.                                 *)
C15_FormatStateRestored ==
    [][\A i \in LogIds :
          logs[i].state = "alive" /\ logs'[i].state = "dead" /\ logs[i].variant = "Log"
          => /\ streams'[logs[i].sink].fill = logs[i].fill0
             /\ streams'[logs[i].sink].width = logs[i].width0
             /\ CallerField(streams'[logs[i].sink].fill) = CallerField(logs[i].fill0)]_vars

====
